---- MODULE Spec2Model ----
(***************************************************************************)
(* Model of the solar-system viewer of src/main.js (lines 197-458, the     *)
(* version with the desktop view and the AR view): the mode controller     *)
(* (init3D, initAR, the start button), the two per-frame callbacks         *)
(* (animate, renderAR), the AR hit-test request and the tap-to-place       *)
(* handler (onSelect).                                                     *)
(*                                                                         *)
(* Angles and scales are integers in thousandths (0.3 is 300, a speed of   *)
(* 0.02 rad per frame is 20).  Objects made by `new` are numbered: the     *)
(* n-th renderer, its drawing surface, the scene, the solar-system group   *)
(* and the controls or reticle built by the same initialisation all carry  *)
(* the number n.  XR sessions are numbered in the order they start.        *)
(***************************************************************************)
EXTENDS Integers, Sequences, FiniteSets, TLC

\* ------------------------------------------------------------------ bounds
\* Renderers ever created: the page load plus the start clicks.
MaxRenderers == 3
\* XR sessions ever started.
MaxSessions == 2
\* Scene submissions (renderer.render calls) over all callbacks.
MaxFrames == 3
\* Surfaces a frame's hit test can meet: the longest result sequence.
MaxHits == 2

\* ------------------------------------------------------- program constants
\* solarSystemGroup.scale.set(0.3, 0.3, 0.3)
PlacedScale == 300
\* a new Object3D has scale (1, 1, 1)
UnitScale == 1000
\* Math.PI * 2, the range of the random starting angle
TwoPi == 6283

\* planetConfig: name, distance (tenths) and speed (thousandths of a radian)
planetConfig ==
  << [name |-> "Sun",     distance |-> 0,  speed |-> 0],
     [name |-> "Mercury", distance |-> 10, speed |-> 20],
     [name |-> "Venus",   distance |-> 15, speed |-> 15],
     [name |-> "Earth",   distance |-> 20, speed |-> 10],
     [name |-> "Mars",    distance |-> 25, speed |-> 8],
     [name |-> "Jupiter", distance |-> 35, speed |-> 5],
     [name |-> "Saturn",  distance |-> 45, speed |-> 4],
     [name |-> "Uranus",  distance |-> 55, speed |-> 3],
     [name |-> "Neptune", distance |-> 65, speed |-> 2] >>

\* ------------------------------------------------------------------- state
VARIABLES
  platform,               \* navigator.xr: "absent", or what isSessionSupported does
  overlayHidden,          \* overlay.classList has 'hidden'
  containerVisible,       \* container.style.visibility = 'visible'
  alerts,                 \* alert() calls so far
  containerChildren,      \* elements appended to the container
  loops,                  \* loops[r]: the animation loop set on renderer r
  renderer,               \* the renderer the global names
  scene,                  \* the scene the global names: [id, children]
  controls,               \* the OrbitControls the global names: [id, disposed]
  solarSystemGroup,       \* the group the global names: [id, position, scale]
  planets,                \* the tracked pivots, in push order
  pendingStars,           \* star-texture loads whose callback has not run
  reticle,                \* the reticle the global names: [id, visible, matrix]
  hitTestSource,          \* 0 (null) or the session whose source it is
  hitTestSourceRequested, \* the request flag
  sessions,               \* the XR sessions started so far
  drawn,                  \* renderer.render calls so far
  ran,                    \* renderers whose callback ran in this display refresh
  refreshes,              \* display refreshes completed since the last init
  viewport,               \* window.innerWidth and window.innerHeight
  camera,                 \* the camera the global names: [id, aspect]
  sizes                   \* sizes[r]: the pixel size of renderer r's surface

vars == << platform, overlayHidden, containerVisible, alerts, containerChildren,
           loops, renderer, scene, controls, solarSystemGroup, planets,
           pendingStars, reticle, hitTestSource, hitTestSourceRequested,
           sessions, drawn, ran, refreshes, viewport, camera, sizes >>

\* The animation-frame bookkeeping of the display.
schedule == << ran, refreshes >>

\* The window, the camera and the surface sizes.
display == << viewport, camera, sizes >>

\* ------------------------------------------------------------ value spaces
Platforms == {"absent", "supported", "unsupported", "rejects", "throws"}

\* The seeds Math.random is drawn from.
Seeds == {0, 3141}

\* The surfaces the viewer's ray can meet, numbered by distance.
Positions == 1..MaxHits

\* The pose transform of a hit on surface p: its position and orientation
\* (odd surfaces are floors, even ones walls).
PoseOf(p) == [pos |-> p, rot |-> p % 2]

Poses == {PoseOf(p) : p \in Positions}

\* new Matrix4(): the identity, at the origin.
IdentityMatrix == [pos |-> 0, rot |-> 0]

\* The hits on the surfaces P, nearest first.
HitsOn(P) ==
  [i \in 1..Cardinality(P) |->
     PoseOf(CHOOSE p \in P : Cardinality({q \in P : q < p}) = i - 1)]

\* The hit-test result sequences a frame can return.
HitResults == {HitsOn(P) : P \in SUBSET Positions}

\* The window sizes: landscape and portrait.
Viewports == {[w |-> 800, h |-> 600], [w |-> 600, h |-> 800]}

Obj(k, i) == [kind |-> k, id |-> i]

\* ----------------------------------------------------------------- helpers
\* Vector3.setFromMatrixPosition: the translation part of a matrix.
MatrixPosition(m) == m.pos

\* Math.random() * Math.PI * 2 for the i-th configured body
RandomAngle(seed, i) == (seed + 777 * i) % TwoPi

\* The pivots createSolarSystem pushes for group g: one per non-Sun body.
NewPivots(g, seed) ==
  LET body(i) == planetConfig[i + 1]
  IN  [i \in 1..(Len(planetConfig) - 1) |->
         [group    |-> g,
          name     |-> body(i).name,
          distance |-> body(i).distance,
          speed    |-> body(i).speed,
          angle    |-> RandomAngle(seed, i),
          rotY     |-> 0,
          meshRotY |-> 0]]

\* planets.forEach: the pivot turns by speed, the mesh by twice the speed.
AdvancePivot(p) ==
  [p EXCEPT !.rotY = @ + p.speed, !.meshRotY = @ + p.speed * 2]

AdvancePlanets(ps) == [i \in 1..Len(ps) |-> AdvancePivot(ps[i])]

\* window.innerWidth / window.innerHeight, in thousandths.
Aspect(v) == (v.w * 1000) \div v.h

\* The renderers with a per-frame callback registered.
Callbacks == {r \in 1..Len(loops) : loops[r] # "null"}

\* Every registered callback is called once per display refresh: has the
\* refresh called them all once the callback of renderer r has run?
RefreshDone(r) == Callbacks \subseteq (ran \cup {r})

\* The bookkeeping after the callback of renderer r has run.
CallbackRan(r) ==
  /\ ran' = IF RefreshDone(r) THEN {} ELSE ran \cup {r}
  /\ refreshes' = IF RefreshDone(r) THEN refreshes + 1 ELSE refreshes

ActiveSessions == {s \in 1..Len(sessions) : sessions[s].state = "active"}

\* renderer.xr.getSession() for renderer r: its running session, or 0 (null).
GetSession(r) ==
  IF \E s \in ActiveSessions : sessions[s].renderer = r
  THEN CHOOSE s \in ActiveSessions : sessions[s].renderer = r
  ELSE 0

\* -------------------------------------------------------------------- Init
\* The state once the DOMContentLoaded handler has run: the declarations,
\* then the initial init3D().
Init ==
  /\ platform \in Platforms
  /\ overlayHidden = FALSE
  /\ containerVisible = TRUE
  /\ alerts = 0
  /\ containerChildren = {Obj("canvas", 1)}
  /\ loops = << "animate" >>
  /\ renderer = 1
  /\ scene = [id |-> 1, children |-> {Obj("AmbientLight", 1), Obj("group", 1)}]
  /\ controls = [id |-> 1, disposed |-> FALSE]
  /\ solarSystemGroup = [id |-> 1, position |-> 0, scale |-> UnitScale]
  /\ \E seed \in Seeds : planets = NewPivots(1, seed)
  /\ pendingStars = 1
  /\ reticle = [id |-> 0, visible |-> FALSE, matrix |-> IdentityMatrix]
  /\ hitTestSource = 0
  /\ hitTestSourceRequested = FALSE
  /\ sessions = << >>
  /\ drawn = 0
  /\ ran = {}
  /\ refreshes = 0
  /\ viewport = [w |-> 800, h |-> 600]
  /\ camera = [id |-> 1, aspect |-> Aspect(viewport)]
  /\ sizes = << viewport >>

\* ---------------------------------------------------------- mode controller
\* init3D(): a new scene, renderer, surface, controls and group; nothing of
\* the previous mode is released and `planets` is not reset.
init3D(seed) ==
  LET n == Len(loops) + 1
  IN  /\ containerVisible' = TRUE
      /\ scene' = [id |-> n, children |-> {Obj("AmbientLight", n), Obj("group", n)}]
      /\ renderer' = n
      /\ containerChildren' = containerChildren \cup {Obj("canvas", n)}
      /\ controls' = [id |-> n, disposed |-> FALSE]
      /\ solarSystemGroup' = [id |-> n, position |-> 0, scale |-> UnitScale]
      /\ planets' = planets \o NewPivots(n, seed)
      /\ pendingStars' = pendingStars + 1
      /\ loops' = Append(loops, "animate")
      /\ sizes' = Append(sizes, viewport)
      /\ camera' = [id |-> n, aspect |-> Aspect(viewport)]
      /\ ran' = {}
      /\ refreshes' = 0
      /\ UNCHANGED << reticle, hitTestSource, hitTestSourceRequested, sessions, drawn >>

\* What initAR releases and acquires: the controls, the container's children
\* and the animation loops.
Resources == [controls |-> controls, children |-> containerChildren, loops |-> loops]

\* Variant: the teardown leaves the old renderer's animation loop set.
TeardownSteps_KeepLoop(st, r) ==
  LET disposed == [st EXCEPT !.controls.disposed = TRUE]
      detached == [disposed EXCEPT !.children = @ \ {Obj("canvas", r)}]
  IN  << disposed, detached, detached >>

\* The first statements of initAR, one resource state after each:
\* controls.dispose(), container.removeChild(renderer.domElement),
\* renderer.setAnimationLoop(null), for the current renderer r.
TeardownSteps(st, r) ==
  LET disposed == [st EXCEPT !.controls.disposed = TRUE]
      detached == [disposed EXCEPT !.children = @ \ {Obj("canvas", r)}]
      cleared  == [detached EXCEPT !.loops[r] = "null"]
  IN  << disposed, detached, cleared >>

\* The acquiring statements of initAR for the new renderer n, one resource
\* state after each: container.appendChild(renderer.domElement),
\* container.appendChild(arButton), renderer.setAnimationLoop(renderAR).
BuildSteps(st, n) ==
  LET surface == [st EXCEPT !.children = @ \cup {Obj("canvas", n)}]
      button  == [surface EXCEPT !.children = @ \cup {Obj("ARButton", n)}]
      looped  == [button EXCEPT !.loops = Append(@, "renderAR")]
  IN  << surface, button, looped >>

\* The resource states initAR goes through, from the state it is called in
\* to the state it returns in.
initARSteps(st, r, n) ==
  LET down == TeardownSteps(st, r)
  IN  << st >> \o down \o BuildSteps(down[Len(down)], n)

\* initAR(): release the current renderer's surface and loop, then build the
\* AR scene, renderer, surface, group, AR button and reticle.
initAR(seed) ==
  LET n     == Len(loops) + 1
      steps == initARSteps(Resources, renderer, n)
      final == steps[Len(steps)]
  IN  /\ controls' = final.controls
      /\ containerChildren' = final.children
      /\ loops' = final.loops
      /\ planets' = NewPivots(n, seed)
      /\ scene' = [id |-> n, children |-> {Obj("HemisphereLight", n), Obj("reticle", n)}]
      /\ renderer' = n
      /\ solarSystemGroup' = [id |-> n, position |-> 0, scale |-> UnitScale]
      /\ reticle' = [id |-> n, visible |-> FALSE, matrix |-> IdentityMatrix]
      /\ sizes' = Append(sizes, viewport)
      /\ camera' = [id |-> n, aspect |-> Aspect(viewport)]
      /\ ran' = {}
      /\ refreshes' = 0
      /\ UNCHANGED << pendingStars, hitTestSource, hitTestSourceRequested,
                      sessions, drawn >>

\* The start button's click handler.  navigator.xr.isSessionSupported
\* returns a promise, which is truthy whatever it later settles to; the
\* handler never reads the settled value.  The page is not clickable while an
\* immersive session shows, and a click is a task of its own: it does not
\* run between the callbacks of one display refresh.
StartClick ==
  /\ Len(loops) < MaxRenderers
  /\ ActiveSessions = {}
  /\ ran = {}
  /\ overlayHidden' = TRUE
  /\ containerVisible' = TRUE
  /\ \/ /\ platform = "throws"
        /\ UNCHANGED << alerts, containerChildren, loops, renderer, scene, controls,
                        solarSystemGroup, planets, pendingStars, reticle,
                        hitTestSource, hitTestSourceRequested, sessions, drawn,
                        ran, refreshes, camera, sizes >>
     \/ /\ platform \in {"supported", "unsupported", "rejects"}
        /\ \E seed \in Seeds : initAR(seed)
        /\ UNCHANGED alerts
     \/ /\ platform = "absent"
        /\ alerts' = alerts + 1
        /\ \E seed \in Seeds : init3D(seed)
  /\ UNCHANGED << platform, viewport >>

\* The star-texture load of createSolarSystem(false) completes: its callback
\* adds a star mesh to whatever scene the global names by then.
StarsLoaded ==
  /\ pendingStars > 0
  /\ pendingStars' = pendingStars - 1
  /\ scene' = [scene EXCEPT !.children = @ \cup {Obj("stars", pendingStars)}]
  /\ UNCHANGED << platform, overlayHidden, containerVisible, alerts,
                  containerChildren, loops, renderer, controls, solarSystemGroup,
                  planets, reticle, hitTestSource, hitTestSourceRequested,
                  sessions, drawn >>
  /\ UNCHANGED << schedule, display >>

\* --------------------------------------------------------------- XR session
\* The AR button of renderer r is pressed and the platform grants a session
\* (one immersive session at a time); three.js binds it to renderer r.
StartSession(r) ==
  /\ Obj("ARButton", r) \in containerChildren
  /\ platform = "supported"
  /\ ActiveSessions = {}
  /\ Len(sessions) < MaxSessions
  /\ sessions' = Append(sessions,
       [renderer |-> r, state |-> "active", req |-> "none", issued |-> 0,
        endListeners |-> 0, selectListener |-> FALSE, placed |-> 0])
  /\ UNCHANGED << platform, overlayHidden, containerVisible, alerts,
                  containerChildren, loops, renderer, scene, controls,
                  solarSystemGroup, planets, pendingStars, reticle,
                  hitTestSource, hitTestSourceRequested, drawn >>
  /\ UNCHANGED << schedule, display >>

\* The session's 'end' event: the listener renderAR added, if it added one.
EndSession(s) ==
  /\ s \in ActiveSessions
  /\ sessions' = [sessions EXCEPT ![s].state = "ended"]
  /\ IF sessions[s].endListeners > 0
     THEN hitTestSourceRequested' = FALSE /\ hitTestSource' = 0
     ELSE UNCHANGED << hitTestSourceRequested, hitTestSource >>
  /\ UNCHANGED << platform, overlayHidden, containerVisible, alerts,
                  containerChildren, loops, renderer, scene, controls,
                  solarSystemGroup, planets, pendingStars, reticle, drawn >>
  /\ UNCHANGED << schedule, display >>

\* requestReferenceSpace('viewer') resolves: its callback calls
\* requestHitTestSource, which an ended session rejects at once.
RefSpaceResolves(s) ==
  /\ s \in 1..Len(sessions)
  /\ sessions[s].req = "ref"
  /\ sessions' = [sessions EXCEPT
       ![s].req = IF sessions[s].state = "active" THEN "hit" ELSE "rejected"]
  /\ UNCHANGED << platform, overlayHidden, containerVisible, alerts,
                  containerChildren, loops, renderer, scene, controls,
                  solarSystemGroup, planets, pendingStars, reticle,
                  hitTestSource, hitTestSourceRequested, drawn >>
  /\ UNCHANGED << schedule, display >>

\* requestHitTestSource resolves, whenever the platform gets to it: the
\* callback stores the source without looking at the session or the flag.
HitSourceResolves(s) ==
  /\ s \in 1..Len(sessions)
  /\ sessions[s].req = "hit"
  /\ sessions' = [sessions EXCEPT ![s].req = "resolved"]
  /\ hitTestSource' = s
  /\ UNCHANGED << platform, overlayHidden, containerVisible, alerts,
                  containerChildren, loops, renderer, scene, controls,
                  solarSystemGroup, planets, pendingStars, reticle,
                  hitTestSourceRequested, drawn >>
  /\ UNCHANGED << schedule, display >>

\* Either request is rejected: no callback of the program runs.
RequestRejects(s) ==
  /\ s \in 1..Len(sessions)
  /\ sessions[s].req \in {"ref", "hit"}
  /\ sessions' = [sessions EXCEPT ![s].req = "rejected"]
  /\ UNCHANGED << platform, overlayHidden, containerVisible, alerts,
                  containerChildren, loops, renderer, scene, controls,
                  solarSystemGroup, planets, pendingStars, reticle,
                  hitTestSource, hitTestSourceRequested, drawn >>
  /\ UNCHANGED << schedule, display >>

\* --------------------------------------------------------- per-frame callbacks
\* animate(): the desktop callback of renderer r.
Animate(r) ==
  /\ r \in 1..Len(loops)
  /\ loops[r] = "animate"
  /\ r \notin ran
  /\ drawn < MaxFrames
  /\ planets' = AdvancePlanets(planets)
  /\ drawn' = drawn + 1
  /\ CallbackRan(r)
  /\ UNCHANGED << platform, overlayHidden, containerVisible, alerts,
                  containerChildren, loops, renderer, scene, controls,
                  solarSystemGroup, pendingStars, reticle, hitTestSource,
                  hitTestSourceRequested, sessions >>
  /\ UNCHANGED display

\* What frame.getHitTestResults(src) can hand to a frame of session s: a
\* result sequence for the session's own source; for a source of another
\* (ended) session the platform throws or finds nothing.
FrameInputs(src, s) ==
  IF src = 0 THEN {[throws |-> FALSE, hits |-> << >>]}
  ELSE IF src = s THEN {[throws |-> FALSE, hits |-> h] : h \in HitResults}
  ELSE {[throws |-> TRUE, hits |-> << >>], [throws |-> FALSE, hits |-> << >>]}

\* Variant: the request block leaves the flag as it found it.
FlagAfterRequest_NotSet(flag) == flag

\* hitTestSourceRequested after the frame's request block has run.
FlagAfterRequest(flag) == TRUE

\* Variant: the reticle follows the farthest hit.
ChosenHit_Last(hits) == hits[Len(hits)]

\* The hit the reticle follows: hitTestResults[0].
ChosenHit(hits) == hits[1]

\* The reticle after the hit-test block of renderAR.
ReticleAfterHitTest(ret, hits) ==
  IF Len(hits) > 0
  THEN [ret EXCEPT !.visible = TRUE, !.matrix = ChosenHit(hits)]
  ELSE [ret EXCEPT !.visible = FALSE]

\* renderAR(timestamp, frame) with a frame: the renderer is presenting
\* session s.  The request block, the hit-test block, then the orbits and
\* the draw; an exception in the hit-test block ends the callback there.
\* `in` is what the platform hands to this frame, one of FrameInputs.
RenderARFrame(s, in) ==
  LET issue  == ~hitTestSourceRequested
      asked  == IF issue
                THEN [sessions EXCEPT ![s].req = "ref",
                                      ![s].issued = @ + 1,
                                      ![s].endListeners = @ + 1]
                ELSE sessions
      listen == hitTestSource # 0 /\ ~in.throws /\ Len(in.hits) > 0
  IN  /\ loops[renderer] = "renderAR"
      /\ s # 0
      /\ s = GetSession(renderer)
      /\ renderer \notin ran
      /\ drawn < MaxFrames
      /\ refreshes < MaxFrames
      /\ CallbackRan(renderer)
      /\ hitTestSourceRequested' =
           IF issue THEN FlagAfterRequest(hitTestSourceRequested)
           ELSE hitTestSourceRequested
      /\ sessions' = IF listen THEN [asked EXCEPT ![s].selectListener = TRUE]
                     ELSE asked
      /\ reticle' = IF hitTestSource # 0 /\ ~in.throws
                    THEN ReticleAfterHitTest(reticle, in.hits)
                    ELSE reticle
      /\ IF hitTestSource # 0 /\ in.throws
         THEN UNCHANGED << planets, drawn >>
         ELSE planets' = AdvancePlanets(planets) /\ drawn' = drawn + 1
      /\ UNCHANGED << platform, overlayHidden, containerVisible, alerts,
                      containerChildren, loops, renderer, scene, controls,
                      solarSystemGroup, pendingStars, hitTestSource >>
      /\ UNCHANGED display

\* renderAR(timestamp) without a frame: the renderer is not presenting.
RenderARIdle ==
  /\ loops[renderer] = "renderAR"
  /\ GetSession(renderer) = 0
  /\ renderer \notin ran
  /\ drawn < MaxFrames
  /\ planets' = AdvancePlanets(planets)
  /\ drawn' = drawn + 1
  /\ CallbackRan(renderer)
  /\ UNCHANGED << platform, overlayHidden, containerVisible, alerts,
                  containerChildren, loops, renderer, scene, controls,
                  solarSystemGroup, pendingStars, reticle, hitTestSource,
                  hitTestSourceRequested, sessions >>
  /\ UNCHANGED display

\* ---------------------------------------------------------------- placement
\* Variant: onSelect places without looking at the reticle.
PlacementEnabled_Always(ret) == TRUE

\* The test onSelect places on.
PlacementEnabled(ret) == ret.visible

\* A 'select' event of session s.  The listener was added with once: true, so
\* dispatch removes it before onSelect runs; without a listener nothing runs.
Select(s) ==
  /\ s \in ActiveSessions
  /\ IF sessions[s].selectListener
     THEN IF PlacementEnabled(reticle)
          THEN /\ solarSystemGroup' =
                    [solarSystemGroup EXCEPT
                       !.position = MatrixPosition(reticle.matrix),
                       !.scale = PlacedScale]
               /\ scene' = [scene EXCEPT
                    !.children = @ \cup {Obj("group", solarSystemGroup.id)}]
               /\ reticle' = [reticle EXCEPT !.visible = FALSE]
               /\ sessions' = [sessions EXCEPT ![s].selectListener = FALSE,
                                               ![s].placed = @ + 1]
          ELSE /\ sessions' = [sessions EXCEPT ![s].selectListener = FALSE]
               /\ UNCHANGED << solarSystemGroup, scene, reticle >>
     ELSE UNCHANGED << solarSystemGroup, scene, reticle, sessions >>
  /\ UNCHANGED << platform, overlayHidden, containerVisible, alerts,
                  containerChildren, loops, renderer, controls, planets,
                  pendingStars, hitTestSource, hitTestSourceRequested, drawn >>
  /\ UNCHANGED << schedule, display >>

\* ------------------------------------------------------------------- resize
\* Variant: the handler resizes the surface of every renderer.
SetSize_All(sz, r, v) == [q \in 1..Len(sz) |-> v]

\* renderer.setSize(w, h) on renderer r: three.js refuses, with a warning,
\* while the renderer presents an XR session.
SetSize(sz, r, v) ==
  IF GetSession(r) # 0 THEN sz ELSE [sz EXCEPT ![r] = v]

\* The window's resize event: the viewport has a new size v, and the handler
\* updates the camera and the renderer the globals name.  The event is
\* dispatched before a refresh's animation callbacks, never between them.
Resize ==
  /\ ran = {}
  /\ \E v \in Viewports \ {viewport} : viewport' = v
  /\ camera' = [camera EXCEPT !.aspect = Aspect(viewport')]
  /\ sizes' = SetSize(sizes, renderer, viewport')
  /\ UNCHANGED << platform, overlayHidden, containerVisible, alerts,
                  containerChildren, loops, renderer, scene, controls,
                  solarSystemGroup, planets, pendingStars, reticle,
                  hitTestSource, hitTestSourceRequested, sessions, drawn >>
  /\ UNCHANGED schedule

\* The only renderer whose loop is renderAR is the one the global names, so
\* renderAR's renderer.xr.getSession() is the session of the renderer that
\* called it.
RenderARLoopIsCurrent ==
  \A r \in 1..Len(loops) : loops[r] = "renderAR" => r = renderer

\* ------------------------------------------------------------------ claims
\* The drawing surfaces attached to the container.
Surfaces == {c \in containerChildren : c.kind = "canvas"}

\* The AR session-entry buttons in the container.
ARButtons == {c \in containerChildren : c.kind = "ARButton"}

GroupAttached == Obj("group", solarSystemGroup.id) \in scene.children

\* A frame callback of session s runs in this step.
FrameStep(s) == \E in \in FrameInputs(hitTestSource, s) : RenderARFrame(s, in)

\* C1: after the page load and any start clicks, exactly one rendering
\* surface is attached and exactly one per-frame callback is registered.
C1_OneSurfaceOneCallback ==
  Cardinality(Surfaces) = 1 /\ Cardinality(Callbacks) = 1

\* C2: a select event with the reticle visible puts the group at the
\* reticle's position with scale 0.3 and attaches it; after a placement in a
\* session, no later select event of that session changes the group's
\* position, scale or attachment.
C2_PlacedOncePerSession ==
  [][\A s \in 1..MaxSessions : Select(s) =>
       /\ (reticle.visible /\ sessions[s].placed = 0) =>
            /\ solarSystemGroup'.position = MatrixPosition(reticle.matrix)
            /\ solarSystemGroup'.scale = PlacedScale
            /\ GroupAttached'
       /\ sessions[s].placed > 0 =>
            /\ UNCHANGED solarSystemGroup
            /\ GroupAttached' = GroupAttached]_vars

\* C3: a session issues the hit-test-source request exactly once: never a
\* second time, every frame callback of the session leaves it issued once,
\* and the step that issues it also sets the request flag.
C3_RequestIssuedOnce ==
  [][\A s \in 1..Len(sessions') :
       /\ sessions'[s].issued <= 1
       /\ (s <= Len(sessions) /\ FrameStep(s)) => sessions'[s].issued = 1
       /\ (s <= Len(sessions) /\ sessions'[s].issued > sessions[s].issued)
            => hitTestSourceRequested']_vars

\* C3 witness: a session whose request was issued once and has resolved, and
\* which processed a frame with hits after that.
C3_Witness ==
  \E s \in ActiveSessions :
    /\ sessions[s].issued = 1
    /\ sessions[s].req = "resolved"
    /\ sessions[s].selectListener
    /\ drawn >= 2

\* C4: no stale hit-test state: unless a running session has issued its own
\* request, the source is null and the flag is false; and a source that is
\* held (and so queried by the next frame) is the running session's own.
C4_NoStaleHitTestState ==
  /\ (\A s \in ActiveSessions : sessions[s].issued = 0)
       => (hitTestSource = 0 /\ ~hitTestSourceRequested)
  /\ hitTestSource # 0 => hitTestSource \in ActiveSessions

\* C5: right after a session's end event the source is null and the flag is
\* false, and the first frame of a session issues a request.
C5_EndResetsHitTestState ==
  [][\A s \in 1..MaxSessions :
       /\ EndSession(s) => (hitTestSource' = 0 /\ ~hitTestSourceRequested')
       /\ (FrameStep(s) /\ sessions[s].issued = 0) => sessions'[s].issued = 1]_vars

\* C6: a select event with the reticle invisible leaves the group's
\* position, scale and attachment as they were.
C6_InvisibleSelectChangesNothing ==
  [][\A s \in 1..MaxSessions : (Select(s) /\ ~reticle.visible) =>
       /\ UNCHANGED solarSystemGroup
       /\ GroupAttached' = GroupAttached]_vars

\* C6 witness: in the first session a frame had a hit (the matrix is set, so
\* the listener was added), and the listener is gone without a placement: a
\* select event ran onSelect while the reticle was invisible.
C6_Witness ==
  /\ Len(sessions) = 1
  /\ sessions[1].state = "active"
  /\ reticle.id = sessions[1].renderer
  /\ reticle.matrix # IdentityMatrix
  /\ ~reticle.visible
  /\ ~sessions[1].selectListener
  /\ sessions[1].placed = 0

\* C7: a frame processed with a source held and a result sequence returned
\* leaves the reticle invisible if the sequence is empty, and visible with
\* the first result's transform otherwise; processing the same results again
\* changes nothing.
C7_ReticleFollowsFirstHit ==
  [][(hitTestSource # 0 /\ drawn' = drawn + 1) =>
       \A s \in ActiveSessions : \A in \in FrameInputs(hitTestSource, s) :
         (RenderARFrame(s, in) /\ ~in.throws) =>
           /\ Len(in.hits) = 0 => ~reticle'.visible
           /\ Len(in.hits) > 0 =>
                (reticle'.visible /\ reticle'.matrix = in.hits[1])
           /\ ReticleAfterHitTest(reticle', in.hits) = reticle']_vars

\* C7 witness: the running session's source is held and a frame with at
\* least one hit has made the reticle visible at that hit's pose.
C7_Witness ==
  \E s \in ActiveSessions :
    /\ hitTestSource = s
    /\ reticle.visible
    /\ reticle.matrix \in Poses
    /\ drawn >= 2

\* The desktop fallback ran: desktop is the active mode, the user was
\* alerted and no AR context was initialised.
DesktopFallbackRan ==
  /\ loops[renderer] = "animate"
  /\ alerts >= 1
  /\ ARButtons = {}
  /\ reticle.id = 0

\* C8: after a start click on a platform whose capability query answers
\* false, the desktop fallback has run and no AR context exists.
C8_UnsupportedFallsBack ==
  (overlayHidden /\ platform = "unsupported") => DesktopFallbackRan

\* C9: after a start click on a platform whose capability query throws or is
\* rejected, or that has no AR API, the desktop fallback has run and no AR
\* context exists.
C9_QueryFailureFallsBack ==
  (overlayHidden /\ platform \in {"absent", "rejects", "throws"})
    => DesktopFallbackRan

\* C10: while a session whose request was rejected runs, the reticle is not
\* visible, no select event places the group, the request is not issued
\* again, and every frame callback advances the planets and draws.
C10_RejectedRequestDegrades ==
  [][\A s \in 1..Len(sessions) :
       (sessions[s].state = "active" /\ sessions[s].req = "rejected") =>
         /\ ~reticle.visible
         /\ sessions'[s].state = "active" => ~reticle'.visible
         /\ sessions'[s].placed = sessions[s].placed
         /\ sessions'[s].issued = sessions[s].issued
         /\ FrameStep(s) =>
              (planets' = AdvancePlanets(planets) /\ drawn' = drawn + 1)]_vars

\* The tracked pivots that belong to the current scene group.
CurrentPivots ==
  {i \in 1..Len(planets) : planets[i].group = solarSystemGroup.id}

\* C11: once N display refreshes have completed after the last mode
\* initialisation, every body of the current group has an orbital angle of
\* its initial random phase plus N times its speed (mod 2 pi) and an axial
\* angle of 2 * N * speed.
C11_AngleIsPhasePlusSteps ==
  ran = {} =>
    \A i \in CurrentPivots :
      /\ (planets[i].rotY - planets[i].angle - refreshes * planets[i].speed)
           % TwoPi = 0
      /\ planets[i].meshRotY = 2 * refreshes * planets[i].speed

\* C12: each completed display refresh has advanced every pivot of the
\* current group exactly once (orbital angle by the speed, axial angle by
\* twice the speed), and no step advances a tracked pivot that belongs to
\* another group.
C12_EachRefreshAdvancesOnce ==
  [][/\ ran' = {} =>
          \A i \in CurrentPivots' :
            /\ planets'[i].rotY = refreshes' * planets'[i].speed
            /\ planets'[i].meshRotY = 2 * refreshes' * planets'[i].speed
     /\ Len(planets') = Len(planets) =>
          \A i \in 1..Len(planets) :
            i \notin CurrentPivots => planets'[i] = planets[i]]_vars

\* C13: the scene used in AR mode never contains a starfield mesh.
C13_NoStarsInARScene ==
  loops[renderer] = "renderAR" => \A c \in scene.children : c.kind # "stars"

\* The surfaces attached and the callbacks registered in a resource state.
SurfacesOf(st) == {c \in st.children : c.kind = "canvas"}

CallbacksOf(st) == {r \in 1..Len(st.loops) : st.loops[r] # "null"}

\* C14: when a start click switches from the active desktop mode to AR, the
\* handler's resource states reach one where the desktop controls are
\* disposed, the desktop surface is detached and the desktop callback is
\* cleared while nothing of the AR context is attached or registered yet;
\* no resource state on the way has two surfaces or two callbacks; and the
\* handler returns with the AR surface attached and the AR callback set.
C14_TeardownBeforeBuild ==
  [][(StartClick /\ loops[renderer] = "animate"
                 /\ loops'[renderer'] = "renderAR") =>
       LET steps == initARSteps(Resources, renderer, renderer')
       IN  /\ steps[Len(steps)] = Resources'
           /\ \A k \in 1..Len(steps) :
                /\ Cardinality(SurfacesOf(steps[k])) <= 1
                /\ Cardinality(CallbacksOf(steps[k])) <= 1
           /\ \E k \in 1..Len(steps) :
                /\ steps[k].controls.disposed
                /\ SurfacesOf(steps[k]) = {}
                /\ CallbacksOf(steps[k]) = {}
                /\ \A j \in 1..k :
                     /\ Obj("canvas", renderer') \notin steps[j].children
                     /\ Len(steps[j].loops) = Len(loops)
           /\ Obj("canvas", renderer') \in containerChildren'
           /\ Obj("canvas", renderer) \notin containerChildren'
           /\ loops'[renderer] = "null"
           /\ controls'.disposed]_vars

\* C14 witness: the first start click has switched the desktop mode of the
\* page load to AR.
C14_Witness ==
  /\ overlayHidden
  /\ loops = << "null", "renderAR" >>
  /\ controls = [id |-> 1, disposed |-> TRUE]
  /\ Surfaces = {Obj("canvas", 2)}

\* C15: a viewport resize sets the current camera's aspect ratio and the
\* current renderer's surface size (which three.js leaves alone while
\* presenting) and changes nothing else: not the mode, the placement state,
\* the reticle, the hit-test source and flag, the group, the planets, the
\* callbacks and listeners, nor any other renderer's surface.
C15_ResizeChangesOnlyCameraAndSurface ==
  [][viewport' # viewport =>
       /\ camera' = [camera EXCEPT !.aspect = Aspect(viewport')]
       /\ Len(sizes') = Len(sizes)
       /\ \A r \in 1..Len(sizes) : r # renderer => sizes'[r] = sizes[r]
       /\ sizes'[renderer] =
            IF GetSession(renderer) # 0 THEN sizes[renderer] ELSE viewport'
       /\ UNCHANGED << platform, overlayHidden, containerVisible, alerts,
                       containerChildren, loops, renderer, scene, controls,
                       solarSystemGroup, planets, pendingStars, reticle,
                       hitTestSource, hitTestSourceRequested, sessions,
                       drawn, ran, refreshes >>]_vars

\* C15 witness: the window was resized after a start click and after a
\* frame: the current surface and camera have the new size, the surface of
\* the page load's renderer still has the old one.
C15_Witness ==
  /\ Len(sizes) >= 2
  /\ drawn >= 1
  /\ sizes[renderer] = viewport
  /\ sizes[1] # viewport
  /\ camera.aspect = Aspect(viewport)

\* The modes with a per-frame callback registered: "animate" is the desktop
\* mode, "renderAR" the AR mode.
ActiveModes == {loops[r] : r \in Callbacks}

\* C16: every start click hides the overlay, and once the overlay is hidden
\* exactly one of the desktop mode and the AR mode is active, and it is the
\* mode of the current renderer.
C16_ClickHidesOverlayOneMode ==
  /\ [](overlayHidden => ActiveModes = {loops[renderer]})
  /\ [][StartClick => (overlayHidden' /\ containerVisible')]_vars

\* C16 witness: a second start click on a platform with the AR API: the
\* first AR context was released, the second is the one active mode.
C16_Witness ==
  /\ overlayHidden
  /\ loops = << "null", "null", "renderAR" >>
  /\ renderer = 3

\* C17: once a select event has placed the group in a running session, the
\* reticle is hidden for the rest of that session.
C17_PlacedKeepsReticleHidden ==
  \A s \in ActiveSessions : sessions[s].placed >= 1 => ~reticle.visible

\* C18: one select event runs the placement at most once, and once a
\* session has placed the group no step registers a placement handler on it
\* again.
C18_NoHandlerAfterPlacement ==
  [][\A s \in 1..Len(sessions) :
       /\ sessions'[s].placed <= sessions[s].placed + 1
       /\ sessions[s].placed >= 1 => ~sessions'[s].selectListener]_vars

\* C19: a visible reticle means that a hit-test source is held and that the
\* current renderer presents a running session; the reticle is not visible
\* once the session has ended.
C19_VisibleReticleHasSource ==
  reticle.visible => (hitTestSource # 0 /\ GetSession(renderer) # 0)

\* C20: a frame processed while its session's hit-test-source request is
\* outstanding makes no hit-test query, leaves the reticle as it is,
\* advances the planets and draws.
C20_OutstandingRequestSkipsHitTest ==
  [][\A s \in 1..Len(sessions) :
       (FrameStep(s) /\ sessions'[s].req \in {"ref", "hit"}) =>
         /\ hitTestSource = 0
         /\ reticle' = reticle
         /\ planets' = AdvancePlanets(planets)
         /\ drawn' = drawn + 1]_vars

\* A select event of session s now would run no handler and change nothing.
SelectIsIgnored(s) == s \in ActiveSessions /\ ~sessions[s].selectListener

\* C21: in AR mode a select event with the reticle visible leaves the group
\* attached, also when it changes nothing (then the group was attached
\* before); no other step attaches it (not a frame, a resolution, a session
\* start or end, nor the initialisation, which starts detached); and no step
\* but a new initialisation ends the attachment.
C21_AttachedIffSelectedWhileVisible ==
  /\ [](loops[renderer] = "renderAR" =>
          \A s \in ActiveSessions :
            (SelectIsIgnored(s) /\ reticle.visible) => GroupAttached)
  /\ [][loops[renderer] = "renderAR" =>
          /\ \A s \in ActiveSessions :
               (Select(s) /\ reticle.visible) => GroupAttached'
          /\ (~GroupAttached /\ GroupAttached') =>
               \E s \in ActiveSessions : Select(s) /\ reticle.visible
          /\ StartClick => ~GroupAttached'
          /\ (GroupAttached /\ ~StartClick) => GroupAttached']_vars

\* The configured bodies that get a pivot: all but the Sun.
OrbitingBodies ==
  {planetConfig[i].name : i \in 1..Len(planetConfig)} \ {"Sun"}

\* C22: the tracked list holds exactly one pivot per non-Sun configured
\* body, and every tracked pivot belongs to the current solar-system group.
C22_TrackedPivotsAreCurrentGroup ==
  /\ \A b \in OrbitingBodies :
       Cardinality({i \in 1..Len(planets) : planets[i].name = b}) = 1
  /\ \A i \in 1..Len(planets) :
       /\ planets[i].name \in OrbitingBodies
       /\ i \in CurrentPivots

\* C23: in AR mode the container holds exactly one AR button, the one made
\* for the current renderer, whose surface is the attached one.
C23_OneARButtonForCurrentSurface ==
  loops[renderer] = "renderAR" =>
    /\ ARButtons = {Obj("ARButton", renderer)}
    /\ Surfaces = {Obj("canvas", renderer)}

Next ==
  \/ StartClick
  \/ StarsLoaded
  \/ \E r \in 1..MaxRenderers : StartSession(r)
  \/ \E s \in 1..MaxSessions : EndSession(s)
  \/ \E s \in 1..MaxSessions : RefSpaceResolves(s)
  \/ \E s \in 1..MaxSessions : HitSourceResolves(s)
  \/ \E s \in 1..MaxSessions : RequestRejects(s)
  \/ \E r \in 1..MaxRenderers : Animate(r)
  \/ \E s \in 1..MaxSessions :
       \E in \in FrameInputs(hitTestSource, s) : RenderARFrame(s, in)
  \/ RenderARIdle
  \/ \E s \in 1..MaxSessions : Select(s)

Spec == Init /\ [][Next]_vars

\* The program with the window's resize events.  Resize writes only the
\* viewport, the camera and the surface sizes, which no other action reads
\* but the initialisations, so the claims that do not speak of them are
\* checked without it.
NextResize == Next \/ Resize

SpecResize == Init /\ [][NextResize]_vars
====
